---------------------------- MODULE Spec2Model ----------------------------
(***************************************************************************)
(* A model of the ReAct agent of helpers/agents2.py: the response parser   *)
(* (parse_response), the step loop (Agent._perform_steps), the transport   *)
(* adapter (Agent._chat), the registry and the tools.                      *)
(*                                                                         *)
(* Text.  A Python string is modelled as a sequence of atoms; an atom is a *)
(* TLA+ string holding a piece of the text verbatim, and the Python string *)
(* is the concatenation of the atoms.  "\n" is the only atom holding a     *)
(* line break.  The texts the model builds are "lexed": an atom made of    *)
(* identifier characters is never directly followed by an atom that starts *)
(* with one, so the atoms are the units the regular expressions see.       *)
(***************************************************************************)
EXTENDS Integers, Sequences, FiniteSets, TLC

VARIABLES
    tools,          \* the caller's tool list given to Agent.__init__
    known_actions,  \* self.known_actions: tool name -> tool
    messages,       \* self.messages: the conversation history
    pc,             \* "idle" | "loop" | "returned" | "raised": where task() is
    i,              \* the step counter of _perform_steps
    max_steps,      \* the max_steps argument of the running task
    step_input,     \* the pending input of _perform_steps
    result,         \* the local 'result' of _perform_steps (unbound at first)
    retval,         \* what task() returned, when pc = "returned"
    exc,            \* the exception that left task(), when pc = "raised"
    trace,          \* history variable: one record per exchange of the task
    response,       \* parser harness: the text given to parse_response
    outcome,        \* parser harness: what parse_response did with it
    origin,         \* parser harness: how the text was built
    prompt_list,    \* composer harness: the list object given to gen_sysprompt
    composed        \* composer harness: one record per call of gen_sysprompt

vars == <<tools, known_actions, messages, pc, i, max_steps, step_input,
          result, retval, exc, trace, response, outcome, origin,
          prompt_list, composed>>

agentVars == <<tools, known_actions, messages, pc, i, max_steps, step_input,
               result, retval, exc, trace>>

parserVars == <<response, outcome, origin>>

promptVars == <<prompt_list, composed>>

---------------------------------------------------------------------------
(* Atoms.                                                                  *)

NL == "\n"
SP == " "
QUOTE == "\""
ESC_NL == "\\n"        \* the two characters \n inside a JSON string
ESC_QUOTE == "\\\""    \* the two characters \" inside a JSON string
LBRACE == "{"
RBRACE == "}"
COLON == ":"
COMMA == ","
TAG_ACTION == "Action:"
TAG_INPUT == "Action Input:"
TAG_OBSERVATION == "Observation:"
TAG_THOUGHT == "Thought:"

\* Atoms that are identifiers from end to end.
IdentAtoms ==
    {"answer", "calculator", "web_search", "foo", "reply", "expression",
     "query", "hm", "rain"}

\* The longest prefix of an atom matching [_a-zA-Z][_a-zA-Z0-9]*, "" if none.
IdPrefix(a) ==
    CASE a \in IdentAtoms -> a
      [] a = TAG_ACTION -> "Action"
      [] a = TAG_INPUT -> "Action"
      [] a = TAG_OBSERVATION -> "Observation"
      [] a = TAG_THOUGHT -> "Thought"
      [] OTHER -> ""

\* Whether an atom starts with a character of [_a-zA-Z0-9].
StartsWord(a) == IdPrefix(a) # "" \/ a \in {"4", "2+2"}

\* The texts of the model are lexed (see the head of the module).
Lexed(t) ==
    \A p \in 1..(Len(t) - 1) : ~(t[p] \in IdentAtoms \cup {"4"} /\ StartsWord(t[p + 1]))

\* \s of Python's re on the atoms of the model.
IsSpace(a) == a \in {SP, NL}

\* ^ under re.MULTILINE: the start of the text or just after a line break.
LineStart(t, p) == p = 1 \/ t[p - 1] = NL

\* The first position from p on that holds no white space (Len(t) + 1 if none).
RECURSIVE SkipSpace(_, _)
SkipSpace(t, p) ==
    IF p <= Len(t) /\ IsSpace(t[p]) THEN SkipSpace(t, p + 1) ELSE p

\* The last position of text t holding atom a, 0 if none.
LastIndexOf(t, a) ==
    IF \E p \in 1..Len(t) : t[p] = a
    THEN CHOOSE p \in 1..Len(t) : t[p] = a /\ \A q \in (p + 1)..Len(t) : t[q] # a
    ELSE 0

---------------------------------------------------------------------------
(* The regular expressions of parse_response.                              *)

\* The pattern without its capture group's character classes: ^Action:\s*(.*)
ActionMatchAt_anything(t, p) ==
    /\ LineStart(t, p)
    /\ t[p] = TAG_ACTION
    /\ SkipSpace(t, p + 1) <= Len(t)

\* RE_ACTION matches at p: ^Action:\s*([_a-zA-Z][_a-zA-Z0-9]*)
ActionMatchAt(t, p) ==
    /\ LineStart(t, p)
    /\ t[p] = TAG_ACTION
    /\ LET q == SkipSpace(t, p + 1) IN q <= Len(t) /\ IdPrefix(t[q]) # ""

\* RE_ACTION.findall(t): the captured names, left to right, not overlapping.
RECURSIVE ActionFindAll(_, _)
ActionFindAll(t, p) ==
    IF p > Len(t) THEN <<>>
    ELSE IF ActionMatchAt(t, p)
         THEN LET q == SkipSpace(t, p + 1)
              IN <<IdPrefix(t[q])>> \o ActionFindAll(t, q + 1)
         ELSE ActionFindAll(t, p + 1)

RE_ACTION(t) == ActionFindAll(t, 1)

\* RE_ACTION_INPUT matches at p: ^Action Input:\s*({.*}) with re.DOTALL, so
\* the greedy .* runs over line breaks up to the last "}" of the whole text.
InputMatchAt(t, p) ==
    /\ LineStart(t, p)
    /\ t[p] = TAG_INPUT
    /\ LET q == SkipSpace(t, p + 1)
       IN q <= Len(t) /\ t[q] = LBRACE /\ LastIndexOf(t, RBRACE) > q

\* RE_ACTION_INPUT.findall(t): the captured payloads.
RECURSIVE InputFindAll(_, _)
InputFindAll(t, p) ==
    IF p > Len(t) THEN <<>>
    ELSE IF InputMatchAt(t, p)
         THEN LET q == SkipSpace(t, p + 1)
                  e == LastIndexOf(t, RBRACE)
              IN <<SubSeq(t, q, e)>> \o InputFindAll(t, e + 1)
         ELSE InputFindAll(t, p + 1)

RE_ACTION_INPUT(t) == InputFindAll(t, 1)

\* RE_OBSERVATION.search(t) is not None: 'Observation:' anywhere, also in the
\* middle of a line (the pattern has no ^).
RE_OBSERVATION(t) == \E p \in 1..Len(t) : t[p] = TAG_OBSERVATION

---------------------------------------------------------------------------
(* json.loads on a captured payload.  A mapping is a function from keys to *)
(* values, both strings (sequences of atoms).  The payloads of the model   *)
(* hold objects with string values only: no numbers, arrays or nested      *)
(* objects stand inside braces.  At the root json.loads also reads a       *)
(* string, the number 4 and an array of strings.                           *)

JsonFail == [ok |-> FALSE, val |-> <<>>, next |-> 0]

\* A JSON string from the atom after its opening quote; acc is what was read.
RECURSIVE json_string(_, _, _)
json_string(t, p, acc) ==
    IF p > Len(t) THEN JsonFail
    ELSE IF t[p] = QUOTE THEN [ok |-> TRUE, val |-> acc, next |-> p + 1]
    ELSE IF t[p] = NL THEN JsonFail    \* a raw control character
    ELSE IF t[p] = ESC_NL THEN json_string(t, p + 1, Append(acc, NL))
    ELSE IF t[p] = ESC_QUOTE THEN json_string(t, p + 1, Append(acc, QUOTE))
    ELSE json_string(t, p + 1, Append(acc, t[p]))

\* The members of an object, read one after the other into acc: from the
\* opening quote of a key (json_members), past the key (json_colon), past
\* the colon (json_value), past the value (json_member_end) and on to the
\* "," or "}" at e (json_more).  A repeated key keeps the last value.
RECURSIVE json_members(_, _, _)
RECURSIVE json_colon(_, _, _)
RECURSIVE json_value(_, _, _, _)
RECURSIVE json_member_end(_, _, _, _)
RECURSIVE json_more(_, _, _)

json_members(t, p, acc) ==
    IF p > Len(t) \/ t[p] # QUOTE THEN JsonFail
    ELSE json_colon(t, json_string(t, p + 1, <<>>), acc)

json_colon(t, k, acc) ==
    IF ~k.ok \/ SkipSpace(t, k.next) > Len(t) \/ t[SkipSpace(t, k.next)] # COLON
    THEN JsonFail
    ELSE json_value(t, k.val, SkipSpace(t, SkipSpace(t, k.next) + 1), acc)

json_value(t, key, s, acc) ==
    IF s > Len(t) \/ t[s] # QUOTE THEN JsonFail
    ELSE json_member_end(t, key, json_string(t, s + 1, <<>>), acc)

json_member_end(t, key, v, acc) ==
    IF ~v.ok THEN JsonFail
    ELSE json_more(t, SkipSpace(t, v.next), (key :> v.val) @@ acc)

json_more(t, e, acc) ==
    IF e > Len(t) THEN JsonFail
    ELSE IF t[e] = RBRACE THEN [ok |-> TRUE, val |-> acc, next |-> e + 1]
    ELSE IF t[e] = COMMA THEN json_members(t, SkipSpace(t, e + 1), acc)
    ELSE JsonFail

\* An object from its "{" at p.
json_object(t, p) ==
    IF SkipSpace(t, p + 1) <= Len(t) /\ t[SkipSpace(t, p + 1)] = RBRACE
    THEN [ok |-> TRUE, val |-> <<>>, next |-> SkipSpace(t, p + 1) + 1]
    ELSE json_members(t, SkipSpace(t, p + 1), <<>>)

\* The elements of an array, strings only, read one after the other into acc.
RECURSIVE json_elements(_, _, _)
RECURSIVE json_element_end(_, _, _)
RECURSIVE json_array_more(_, _, _)

json_elements(t, p, acc) ==
    IF p > Len(t) \/ t[p] # QUOTE THEN JsonFail
    ELSE json_element_end(t, json_string(t, p + 1, <<>>), acc)

json_element_end(t, v, acc) ==
    IF ~v.ok THEN JsonFail
    ELSE json_array_more(t, SkipSpace(t, v.next), Append(acc, v.val))

json_array_more(t, e, acc) ==
    IF e > Len(t) THEN JsonFail
    ELSE IF t[e] = "]" THEN [ok |-> TRUE, val |-> acc, next |-> e + 1]
    ELSE IF t[e] = COMMA THEN json_elements(t, SkipSpace(t, e + 1), acc)
    ELSE JsonFail

\* An array from its "[" at p.
json_array(t, p) ==
    IF SkipSpace(t, p + 1) <= Len(t) /\ t[SkipSpace(t, p + 1)] = "]"
    THEN [ok |-> TRUE, val |-> <<>>, next |-> SkipSpace(t, p + 1) + 1]
    ELSE json_elements(t, SkipSpace(t, p + 1), <<>>)

\* The value at the root of the text, from its first atom at s.
json_root(t, s) ==
    CASE t[s] = LBRACE -> json_object(t, s)
      [] t[s] = "[" -> json_array(t, s)
      [] t[s] = QUOTE -> json_string(t, s + 1, <<>>)
      [] t[s] = "4" -> [ok |-> TRUE, val |-> <<"4">>, next |-> s + 1]
      [] OTHER -> JsonFail

\* The Python type json.loads gives the root value: dict, list, or a scalar.
json_shape(t) ==
    CASE SkipSpace(t, 1) > Len(t) -> "none"
      [] t[SkipSpace(t, 1)] = LBRACE -> "mapping"
      [] t[SkipSpace(t, 1)] = "[" -> "list"
      [] OTHER -> "scalar"

\* json.loads(t): the value, or a failure (bad syntax, or text left after the
\* value).
json_end(t, o) == IF o.ok /\ SkipSpace(t, o.next) > Len(t) THEN o ELSE JsonFail

json_loads(t) ==
    IF SkipSpace(t, 1) > Len(t) THEN JsonFail
    ELSE json_end(t, json_root(t, SkipSpace(t, 1)))

---------------------------------------------------------------------------
(* parse_response.  Its outcome is a Directive or the exception it raises. *)

Raised(e) == [kind |-> e, action |-> "", input |-> <<>>, shape |-> "none"]

\* The pair (action, action_input) returned; shape is the type of action_input.
Returned(a, v, shape) == [kind |-> "Directive", action |-> a, input |-> v, shape |-> shape]

Directive(a, m) == Returned(a, m, "mapping")

\* parse_response with the Observation test placed after the tag counts.
parse_response_obs_last(resp) ==
    LET action_match == RE_ACTION(resp)
        input_match == RE_ACTION_INPUT(resp)
    IN IF Len(action_match) = 0 \/ Len(action_match) = 0
       THEN Raised("InvalidResponseFormat")
       ELSE IF Len(action_match) > 1 \/ Len(action_match) > 1
       THEN Raised("RunawayResponse")
       ELSE IF RE_OBSERVATION(resp)
       THEN Raised("RunawayResponse")
       ELSE IF Len(input_match) = 0
       THEN Raised("IndexError")
       ELSE LET j == json_loads(input_match[1])
            IN IF ~j.ok THEN Raised("InvalidActionInput")
               ELSE Returned(action_match[1], j.val, json_shape(input_match[1]))

parse_response(resp) ==
    IF RE_OBSERVATION(resp) THEN Raised("RunawayResponse")
    ELSE LET action_match == RE_ACTION(resp)
             input_match == RE_ACTION_INPUT(resp)
         IN \* both tests read action_match, as the source does
            IF Len(action_match) = 0 \/ Len(action_match) = 0
            THEN Raised("InvalidResponseFormat")
            ELSE IF Len(action_match) > 1 \/ Len(action_match) > 1
            THEN Raised("RunawayResponse")
            \* input_match[0] on an empty list
            ELSE IF Len(input_match) = 0
            THEN Raised("IndexError")
            ELSE LET j == json_loads(input_match[1])
                 IN IF ~j.ok THEN Raised("InvalidActionInput")
                    ELSE Returned(action_match[1], j.val, json_shape(input_match[1]))

---------------------------------------------------------------------------
(* json.dumps of a mapping with string keys and values, as the round trip  *)
(* of the parser needs it: members joined by ", ", key and value by ": ",  *)
(* a quote and a line break inside a string escaped.                       *)

RECURSIVE dumps_escape(_)
dumps_escape(s) ==
    IF s = <<>> THEN <<>>
    ELSE <<CASE Head(s) = QUOTE -> ESC_QUOTE
             [] Head(s) = NL -> ESC_NL
             [] OTHER -> Head(s)>> \o dumps_escape(Tail(s))

dumps_string(s) == <<QUOTE>> \o dumps_escape(s) \o <<QUOTE>>

RECURSIVE dumps_members(_, _)
dumps_members(m, keys) ==
    IF keys = {} THEN <<>>
    ELSE LET k == CHOOSE x \in keys : TRUE
             rest == keys \ {k}
         IN dumps_string(k) \o <<COLON, SP>> \o dumps_string(m[k])
            \o (IF rest = {} THEN <<>> ELSE <<COMMA, SP>> \o dumps_members(m, rest))

json_dumps(m) == <<LBRACE>> \o dumps_members(m, DOMAIN m) \o <<RBRACE>>

---------------------------------------------------------------------------
(* The texts given to the parser.                                          *)

MaxLines == 3    \* lines of a generated response
MaxKeys == 2     \* keys of a round-trip mapping

Mapping1(k, v) == (k :> v)

LThought == <<TAG_THOUGHT, SP, "hm">>
LAction(a) == <<TAG_ACTION, SP, a>>
LInput(payload) == <<TAG_INPUT, SP>> \o payload

PReply == json_dumps(Mapping1(<<"reply">>, <<"4">>))
PExpression == json_dumps(Mapping1(<<"expression">>, <<"2+2">>))
PQuery == json_dumps(Mapping1(<<"query">>, <<"rain">>))

\* The lines a generated response is made of.
LineShapes ==
    { LThought,
      LAction("answer"), LAction("calculator"), LAction("foo"),
      <<TAG_ACTION>>,                                  \* no name on the line
      <<TAG_ACTION, SP, "4">>,                         \* not an identifier
      LInput(<<LBRACE, RBRACE>>),
      LInput(PReply),
      LInput(PExpression),
      LInput(<<LBRACE, QUOTE, "reply", QUOTE, RBRACE>>),  \* not valid JSON
      LInput(<<LBRACE, QUOTE, "reply", QUOTE, COLON>>),   \* an object left open
      LInput(<<QUOTE, "4", QUOTE>>),                   \* a scalar
      LInput(<<"[", QUOTE, "4", QUOTE, "]">>),         \* an array
      LInput(<<"4">>),                                 \* plain text
      <<QUOTE, "4", QUOTE, RBRACE>>,                   \* closes an open object
      <<TAG_OBSERVATION, SP, "4">>,
      <<TAG_THOUGHT, SP, TAG_OBSERVATION, SP, "4">> }  \* Observation: mid-line

RECURSIVE JoinLines(_)
JoinLines(ls) ==
    IF Len(ls) = 0 THEN <<>>
    ELSE IF Len(ls) = 1 THEN ls[1]
    ELSE ls[1] \o <<NL>> \o JoinLines(Tail(ls))

LineSeqs == UNION {[1..n -> LineShapes] : n \in 1..MaxLines}

\* Round trip: the mappings and names serialized into a well-formed response.
RoundTripKeys == {<<"reply">>, <<"expression">>, <<TAG_OBSERVATION>>}

RoundTripValues ==
    { <<>>, <<"4">>, <<"2+2">>,
      <<QUOTE, "hm", QUOTE>>,
      <<RBRACE, SP, LBRACE>>,
      <<"4", NL, TAG_ACTION, SP, "foo">>,
      <<TAG_OBSERVATION, SP, "rain">> }

RoundTripMappings ==
    UNION {[ks -> RoundTripValues] :
             ks \in {s \in SUBSET RoundTripKeys : Cardinality(s) <= MaxKeys}}

RoundTripActions == {"answer", "calculator", "foo"}

WellFormedLines(a, m) == <<LThought, LAction(a), LInput(json_dumps(m))>>

WellFormedResponse(a, m) == JoinLines(WellFormedLines(a, m))

Unparsed == Raised("unparsed")

---------------------------------------------------------------------------
(* The registry, the prompt composer and the tools.                        *)

\* A tool of the caller that is itself a function named answer:
\* def answer(reply): return "shadow".
CallerAnswer == "the caller's answer"

\* tool.__name__: a tool is written by its name, but for the caller's answer,
\* which bears the name of the built-in one.
ToolName(tool) == IF tool = CallerAnswer THEN "answer" ELSE tool

\* Agent.__init__: {tool.__name__: tool for tool in [answer] + tools}; a later
\* tool of the same name replaces an earlier one.
Registry(ts) ==
    LET all == <<"answer">> \o ts
        names == {ToolName(all[k]) : k \in 1..Len(all)}
    IN [n \in names |->
          all[CHOOSE k \in 1..Len(all) :
                 /\ ToolName(all[k]) = n
                 /\ \A j \in (k + 1)..Len(all) : ToolName(all[j]) # n]]

\* sysprompt_tools(tools): "\n".join of the preamble and one entry per tool,
\* f"\n> Tool Name: {tool_name}\n{tool_doc}\n".
RECURSIVE ToolDocs(_)
ToolDocs(ts) ==
    IF ts = <<>> THEN <<>>
    ELSE <<NL>> \o <<NL, "> Tool Name: ", ToolName(Head(ts)), NL,
                    "<cleandoc of the __doc__ of ", Head(ts), ">", NL>>
         \o ToolDocs(Tail(ts))

sysprompt_tools(ts) == <<"<tools preamble>">> \o ToolDocs(ts)

\* gen_sysprompt(tools): 'tools or []' is the list it is given, or a new list
\* when that one is empty; answer is appended to it in place, then the text
\* is composed.  .tools is the caller's list after the call.
gen_sysprompt(ts) ==
    LET ts2 == Append(ts, "answer")
    IN [text |-> <<"<sysprompt_preamble>", NL, NL>> \o sysprompt_tools(ts2)
                 \o <<NL, NL, "<sysprompt_react_instructions>", NL, NL>>,
        tools |-> IF ts = <<>> THEN ts ELSE ts2]

Returns(v) == [raised |-> FALSE, value |-> v]
Raises == [raised |-> TRUE, value |-> <<>>]

\* eval(expression) and str() of it, None when eval raises.
Eval(e) ==
    CASE e = <<"2+2">> -> <<"4">>
      [] e = <<"4">> -> <<"4">>
      [] OTHER -> <<"None">>

\* answer(**kwargs): a TypeError unless kwargs is exactly {reply}.
answer(kwargs) ==
    IF DOMAIN kwargs = {<<"reply">>} THEN Returns(kwargs[<<"reply">>]) ELSE Raises

\* The caller's answer(**kwargs).
caller_answer(kwargs) ==
    IF DOMAIN kwargs = {<<"reply">>} THEN Returns(<<"shadow">>) ELSE Raises

\* calculator(**kwargs)
calculator(kwargs) ==
    IF DOMAIN kwargs = {<<"expression">>}
    THEN IF Eval(kwargs[<<"expression">>]) # <<"None">>
         THEN Returns(Eval(kwargs[<<"expression">>]))
         ELSE Returns(<<"Error: Invalid mathematical expression">>)
    ELSE Raises

\* web_search(**kwargs): env is what the environment does: no API key, a hit
\* (the dict, written as str() renders it), or a failing search.
web_search(kwargs, env) ==
    IF DOMAIN kwargs = {<<"query">>}
    THEN CASE env = "nokey" -> Returns(<<"Error: Tool unavailable (API_KEY missing)">>)
           [] env = "hit" -> Returns(<<"{'url': 'u', 'content': 'c'}">>)
           [] OTHER -> Raises
    ELSE Raises

Envs == {"nokey", "hit", "fail"}

\* self.known_actions[action](**action_input)
Invoke(tool, kwargs, env) ==
    CASE tool = "answer" -> answer(kwargs)
      [] tool = CallerAnswer -> caller_answer(kwargs)
      [] tool = "calculator" -> calculator(kwargs)
      [] OTHER -> web_search(kwargs, env)

---------------------------------------------------------------------------
(* The agent.                                                              *)

MaxSteps == 3      \* the largest max_steps a caller passes
MaxHistory == 7    \* no task is started that could outgrow this history

Message(role, content) == [role |-> role, content |-> content]

Unbound == [bound |-> FALSE, val |-> <<>>]
Bound(v) == [bound |-> TRUE, val |-> v]

\* The result fed back bare, without its tag.
ObservationOf_untagged(v) == v

\* f"Observation: {result}"
ObservationOf(v) == <<TAG_OBSERVATION, SP>> \o v

ErrInvalidFormat == <<TAG_OBSERVATION, SP, "Error:", SP, "Invalid response format">>

ErrInvalidInput == <<TAG_OBSERVATION, SP, "Error:", SP, "Invalid Action Input format">>

\* The observation without the name of the action.
ErrInvalidAction_nameless(a) == <<TAG_OBSERVATION, SP, "Error:", SP, "Invalid action">>

ErrInvalidAction(a) == <<TAG_OBSERVATION, SP, "Error:", SP, "Invalid action (", a, ")">>

\* The observation without the name of the tool.
ErrTool_nameless(a) ==
    <<TAG_OBSERVATION, SP, "Error:", SP, "There was a problem using the tool">>

ErrTool(a) ==
    <<TAG_OBSERVATION, SP, "Error:", SP, "There was a problem using the tool ('", a,
      "') with the given input.">>

\* The message returned when the loop runs out of steps.
ExhaustedMessage(n) ==
    <<"Agent was unable to answer your question in the maximal number of steps (",
      ToString(n), ")">>

\* The caller's tool lists, queries and the replies of the model.
ToolLists == {<<>>, <<"calculator">>, <<"calculator", "web_search">>, <<CallerAnswer>>}

Queries == {<<"What is 2+2?">>}

RCalculator == JoinLines(<<LThought, LAction("calculator"), LInput(PExpression)>>)
RSearch == JoinLines(<<LThought, LAction("web_search"), LInput(PQuery)>>)
RAnswer == JoinLines(<<LThought, LAction("answer"), LInput(PReply)>>)
RAnswerNoReply == JoinLines(<<LThought, LAction("answer"), LInput(<<LBRACE, RBRACE>>)>>)
RObservation == JoinLines(<<RCalculator, <<TAG_OBSERVATION, SP, "4">> >>)
RTwoActions == JoinLines(<<LAction("calculator"), LAction("answer"), LInput(PReply)>>)
RThoughtOnly == LThought
RNoInput == JoinLines(<<LThought, LAction("answer")>>)
RBadJson ==
    JoinLines(<<LThought, LAction("answer"), LInput(<<LBRACE, QUOTE, "reply", QUOTE, RBRACE>>)>>)
RUnknown == JoinLines(<<LThought, LAction("foo"), LInput(<<LBRACE, RBRACE>>)>>)
RListInput ==
    JoinLines(<<LThought, LAction("answer"), LInput(<<"[", QUOTE, "4", QUOTE, "]">>)>>)

Replies ==
    {RCalculator, RSearch, RAnswer, RAnswerNoReply, RObservation, RTwoActions,
     RThoughtOnly, RNoInput, RBadJson, RUnknown, RListInput}

\* Agent.__init__(tools): the fields of a fresh agent.
AgentInit(ts) ==
    /\ tools = ts
    /\ known_actions = Registry(ts)
    /\ messages = <<Message("system", gen_sysprompt(<<"answer">> \o ts).text)>>
    /\ pc = "idle"
    /\ i = 0
    /\ max_steps = 0
    /\ step_input = <<>>
    /\ result = Unbound
    /\ retval = <<>>
    /\ exc = ""
    /\ trace = <<>>

\* The outgoing message not stored before the model is asked.
chat_send_late(msgs, message) == msgs

\* The outgoing message put at the head of the history.
chat_send_front(msgs, message) == <<Message("user", message)>> \o msgs

\* _chat, first half: the outgoing message is stored before the model is asked.
chat_send(msgs, message) == Append(msgs, Message("user", message))

\* The reply stored under the role of the sender of the input.
chat_receive_as_user(msgs, text) == Append(msgs, Message("user", text))

\* _chat, second half: the reply is stored once it has arrived.
chat_receive(msgs, text) == Append(msgs, Message("assistant", text))

\* A single messages.pop(): the bad reply alone is removed.
pop_one(msgs) == SubSeq(msgs, 1, Len(msgs) - 1)

\* messages.pop(); messages.pop()
pop_two(msgs) == SubSeq(msgs, 1, Len(msgs) - 2)

\* What one exchange of the trace records.
StepRecord(sent, reply, kind, action, input, raised, value) ==
    [sent |-> sent, reply |-> reply, kind |-> kind, action |-> action,
     input |-> input, raised |-> raised, value |-> value]

\* The dispatch of a directive whose action is registered (lines 78-86): the
\* tool call inside try/except, then the return for the terminal action.
dispatch(st, action, input, env) ==
    LET out == Invoke(st.known_actions[action], input, env)
        res == IF out.raised THEN st.result ELSE Bound(out.value)
        nxt == IF out.raised THEN ErrTool(action) ELSE ObservationOf(out.value)
    IN [st EXCEPT
          !.step_input = nxt,
          !.result = res,
          !.pc = IF action # "answer" THEN "loop"
                 ELSE IF res.bound THEN "returned" ELSE "raised",
          !.retval = IF action = "answer" /\ res.bound THEN res.val ELSE <<>>,
          !.exc = IF action = "answer" /\ ~res.bound THEN "UnboundLocalError" ELSE "",
          !.rec = StepRecord(st.step_input, st.reply, "Dispatched", action, input,
                             out.raised, out.value)]

\* One iteration of the loop of _perform_steps, from the reply of the model on
\* (lines 58-86).  st holds the loop's state with the exchange already stored.
classify(st, env) ==
    LET p == parse_response(st.reply)
        rec(kind) == StepRecord(st.step_input, st.reply, kind, p.action, p.input,
                                FALSE, <<>>)
    IN CASE p.kind = "RunawayResponse" ->
              [st EXCEPT !.messages = pop_two(st.messages), !.rec = rec(p.kind)]
         [] p.kind = "InvalidResponseFormat" ->
              [st EXCEPT !.step_input = ErrInvalidFormat, !.rec = rec(p.kind)]
         [] p.kind = "InvalidActionInput" ->
              [st EXCEPT !.step_input = ErrInvalidInput, !.rec = rec(p.kind)]
         [] p.kind = "Directive" ->
              IF p.action \notin DOMAIN st.known_actions
              THEN [st EXCEPT !.step_input = ErrInvalidAction(p.action),
                              !.rec = rec("UnknownAction")]
              ELSE dispatch(st, p.action, p.input, env)
         [] OTHER ->    \* an exception no except clause names leaves task()
              [st EXCEPT !.pc = "raised", !.exc = p.kind, !.rec = rec(p.kind)]

\* The loop's state when the reply has arrived.
Exchanged(reply) ==
    [messages |-> chat_receive(chat_send(messages, step_input), reply),
     known_actions |-> known_actions,
     step_input |-> step_input,
     result |-> result,
     reply |-> reply,
     pc |-> "loop",
     retval |-> <<>>,
     exc |-> "",
     rec |-> <<>>]

perform_step(reply, env) == classify(Exchanged(reply), env)

\* task(user_query, max_steps): the call, up to the first test of the loop.
Task(query, n) ==
    /\ pc # "loop"
    /\ Len(messages) + 2 * n <= MaxHistory
    /\ pc' = "loop"
    /\ i' = 0
    /\ max_steps' = n
    /\ step_input' = query
    /\ result' = Unbound
    /\ retval' = <<>>
    /\ exc' = ""
    /\ trace' = <<>>
    /\ UNCHANGED <<tools, known_actions, messages>>
    /\ UNCHANGED <<parserVars, promptVars>>

\* One iteration of the loop in which the model replies.
Step(reply, env) ==
    /\ pc = "loop"
    /\ i < max_steps
    /\ LET st == perform_step(reply, env)
       IN /\ i' = i + 1
          /\ messages' = st.messages
          /\ step_input' = st.step_input
          /\ result' = st.result
          /\ pc' = st.pc
          /\ retval' = st.retval
          /\ exc' = st.exc
          /\ trace' = Append(trace, st.rec)
    /\ UNCHANGED <<tools, known_actions, max_steps>>
    /\ UNCHANGED <<parserVars, promptVars>>

\* One iteration in which client.chat raises: the user message is stored, the
\* exception leaves _chat, _perform_steps and task.
StepTransportFails ==
    /\ pc = "loop"
    /\ i < max_steps
    /\ i' = i + 1
    /\ messages' = chat_send(messages, step_input)
    /\ pc' = "raised"
    /\ exc' = "TransportFailure"
    /\ UNCHANGED <<tools, known_actions, max_steps, step_input, result, retval, trace>>
    /\ UNCHANGED <<parserVars, promptVars>>

\* The loop test fails: the exhaustion message is returned.
Exhausted ==
    /\ pc = "loop"
    /\ i >= max_steps
    /\ pc' = "returned"
    /\ retval' = ExhaustedMessage(max_steps)
    /\ UNCHANGED <<tools, known_actions, messages, i, max_steps, step_input, result,
                   exc, trace>>
    /\ UNCHANGED <<parserVars, promptVars>>

Init ==
    /\ \E ts \in ToolLists : AgentInit(ts)
    /\ response = <<>>
    /\ outcome = Unparsed
    /\ origin = [rt |-> FALSE, lines |-> <<>>, a |-> "", m |-> <<>>]
    /\ prompt_list = <<>>
    /\ composed = <<>>

Next ==
    \/ \E q \in Queries, n \in 0..MaxSteps : Task(q, n)
    \/ \E r \in Replies, e \in Envs : Step(r, e)
    \/ StepTransportFails
    \/ Exhausted

Spec == Init /\ [][Next]_vars

---------------------------------------------------------------------------
(* The parser on its own: a text is drawn, parse_response is applied.      *)

ParseInit ==
    /\ AgentInit(<<>>)
    /\ prompt_list = <<>>
    /\ composed = <<>>
    /\ outcome = Unparsed
    /\ \/ \E ls \in LineSeqs :
             /\ response = JoinLines(ls)
             /\ origin = [rt |-> FALSE, lines |-> ls, a |-> "", m |-> <<>>]
       \/ \E a \in RoundTripActions, m \in RoundTripMappings :
             /\ response = WellFormedResponse(a, m)
             /\ origin = [rt |-> TRUE, lines |-> WellFormedLines(a, m), a |-> a, m |-> m]

Parse ==
    /\ outcome = Unparsed
    /\ outcome' = parse_response(response)
    /\ UNCHANGED <<response, origin>>
    /\ UNCHANGED <<agentVars, promptVars>>

ParseNext == Parse

SpecParse == ParseInit /\ [][ParseNext]_vars

---------------------------------------------------------------------------
(* The prompt composer on its own: a caller holds a list of tools and      *)
(* calls gen_sysprompt with it, time after time.                           *)

MaxTools == 3    \* tools in the list given to the composer
MaxCalls == 3    \* successive calls with the same list

PromptTools == {"answer", "calculator", "web_search", "date"}

PromptLists == UNION {[1..n -> PromptTools] : n \in 0..MaxTools}

PromptInit ==
    /\ AgentInit(<<>>)
    /\ response = <<>>
    /\ outcome = Unparsed
    /\ origin = [rt |-> FALSE, lines |-> <<>>, a |-> "", m |-> <<>>]
    /\ prompt_list \in PromptLists
    /\ composed = <<>>

\* One call gen_sysprompt(prompt_list).
Compose ==
    /\ Len(composed) < MaxCalls
    /\ composed' = Append(composed, [given |-> prompt_list,
                                     left |-> gen_sysprompt(prompt_list).tools,
                                     text |-> gen_sysprompt(prompt_list).text])
    /\ prompt_list' = gen_sysprompt(prompt_list).tools
    /\ UNCHANGED <<agentVars, parserVars>>

PromptNext == Compose

SpecPrompt == PromptInit /\ [][PromptNext]_vars

---------------------------------------------------------------------------
(* What the claims speak of.                                               *)

Last(sq) == sq[Len(sq)]

\* task() is over, and not because the transport failed.
TaskOver == pc \in {"returned", "raised"}
TransportFailed == pc = "raised" /\ exc = "TransportFailure"

\* The exchange recorded in r dispatched the terminal action.
TerminalDispatch(r) == r.kind = "Dispatched" /\ r.action = "answer"

\* task() returned from the dispatch of the terminal action (line 86).
Answered == pc = "returned" /\ trace # <<>> /\ TerminalDispatch(Last(trace))

StartsWith(t, prefix) == Len(t) >= Len(prefix) /\ SubSeq(t, 1, Len(prefix)) = prefix

\* The lines of a response that respect the grammar of the protocol.
ProperLines ==
    {LThought, LAction("answer"), LAction("calculator"), LAction("foo"),
     LInput(<<LBRACE, RBRACE>>), LInput(PReply), LInput(PExpression)}

\* How many of the lines ls begin with the tag.
TagLines(ls, tag) == Cardinality({k \in 1..Len(ls) : ls[k][1] = tag})

\* A generated response of proper lines only, already parsed.
ProperParsed ==
    /\ outcome # Unparsed
    /\ ~origin.rt
    /\ \A k \in 1..Len(origin.lines) : origin.lines[k] \in ProperLines

\* A line of the text begins with the tag Observation:.
HasObservationLine(t) == \E p \in 1..Len(t) : LineStart(t, p) /\ t[p] = TAG_OBSERVATION

---------------------------------------------------------------------------
(* Lemmas: what holds of the code next to the claims it breaks.            *)

\* Every text the model parses or exchanges is lexed.
TextsLexed ==
    /\ Lexed(response)
    /\ \A k \in 1..Len(messages) : Lexed(messages[k].content)

\* The step counter counts the exchanges and never passes max_steps.
StepAccounting ==
    /\ i <= max_steps
    /\ Len(trace) <= max_steps
    /\ ~TransportFailed => i = Len(trace)
    /\ (pc = "returned" /\ ~Answered) => i = max_steps

\* The round trip holds when no key or value holds 'Observation:'.
RoundTripWithoutObservation ==
    (origin.rt /\ outcome # Unparsed /\ \A p \in 1..Len(response) : response[p] # TAG_OBSERVATION)
    => outcome = Directive(origin.a, origin.m)

\* A tool other than the terminal one that raises is contained.
NonTerminalFailureContained ==
    (trace # <<>> /\ Last(trace).kind = "Dispatched" /\ Last(trace).raised
     /\ Last(trace).action # "answer")
    => /\ StartsWith(step_input, <<TAG_OBSERVATION, SP, "Error:">>)
       /\ pc # "raised" \/ TransportFailed

---------------------------------------------------------------------------
(* The claims.                                                             *)

\* C1: when the transport does not fail, task() returns normally, with the
\* terminal tool's payload or the exhaustion message; no exception reaches
\* the caller.
C1_NoExceptionReachesCaller ==
    /\ pc = "raised" => exc = "TransportFailure"
    /\ pc = "returned" => Answered \/ retval = ExhaustedMessage(max_steps)

\* C2: task() performs at most max_steps exchanges, each consuming exactly one
\* step whatever its outcome, and then returns; when every reply is a Runaway
\* response it returns after exactly max_steps exchanges.
C2_BoundedThenReturns ==
    /\ Len(trace) <= max_steps
    /\ ~TransportFailed => i = Len(trace)
    /\ TaskOver /\ ~TransportFailed => pc = "returned"
    /\ (pc = "returned" /\ \A k \in 1..Len(trace) : trace[k].kind = "RunawayResponse")
          => Len(trace) = max_steps

\* C3: when no exchange of the task ends in a dispatched terminal action,
\* task() returns the exhaustion message naming max_steps, after exactly
\* max_steps exchanges.
C3_ExhaustionMessage ==
    (/\ TaskOver
     /\ ~TransportFailed
     /\ \A k \in 1..Len(trace) : ~TerminalDispatch(trace[k]))
    => /\ pc = "returned"
       /\ retval = ExhaustedMessage(max_steps)
       /\ Len(trace) = max_steps

\* C4: on the Answered path the returned value is the value the terminal tool
\* produced for the input of the directive parsed in that same step.
C4_ReturnsTerminalPayload ==
    Answered => /\ ~Last(trace).raised
                /\ retval = answer(Last(trace).input).value

\* C5: when a tool raises during dispatch, the next input begins with
\* "Observation: Error:" and the loop goes on: task() neither returns from
\* that step nor lets an exception out.
C5_ToolFailureContained ==
    (trace # <<>> /\ Last(trace).kind = "Dispatched" /\ Last(trace).raised)
    => /\ StartsWith(step_input, <<TAG_OBSERVATION, SP, "Error:">>)
       /\ \/ pc = "loop"
          \/ TransportFailed
          \/ pc = "returned" /\ i = max_steps /\ retval = ExhaustedMessage(max_steps)

\* The first reply of the task is a well-formed directive for a registered
\* non-terminal tool, which returns; the second is the answer directive.
C6_Pre ==
    /\ Len(trace) >= 2
    /\ trace[1].reply \in {RCalculator, RSearch}
    /\ trace[1].kind = "Dispatched"
    /\ ~trace[1].raised
    /\ trace[2].reply = RAnswer

\* C6: a first reply that is a well-formed directive for a registered
\* non-terminal tool, then a well-formed answer directive: task() returns the
\* answer's reply, "4", after exactly two exchanges, and the second user
\* message is "Observation: " followed by the first tool's result.
C6_ToolThenAnswer ==
    C6_Pre => /\ pc = "returned"
              /\ retval = <<"4">>
              /\ Len(trace) = 2
              /\ i = 2
              /\ trace[2].sent = <<TAG_OBSERVATION, SP>> \o trace[1].value
              /\ messages[Len(messages) - 1] =
                    Message("user", <<TAG_OBSERVATION, SP>> \o trace[1].value)
              /\ messages[Len(messages) - 2] = Message("assistant", trace[1].reply)

C6_Witness ==
    /\ C6_Pre
    /\ pc = "returned"
    /\ trace[1].reply = RCalculator
    /\ trace[2].sent = <<TAG_OBSERVATION, SP, "4">>

\* C7: a response of proper lines without an Observation: tag that lacks the
\* Action: tag, the Action Input: tag or both is classified as Malformed.
C7_MissingTagIsMalformed ==
    (/\ ProperParsed
     /\ \/ TagLines(origin.lines, TAG_ACTION) = 0
        \/ TagLines(origin.lines, TAG_INPUT) = 0)
    => outcome.kind = "InvalidResponseFormat"

\* C8: a response of proper lines in which both tags appear and one of them
\* appears more than once is classified as Runaway.
C8_RepeatedTagIsRunaway ==
    (/\ ProperParsed
     /\ TagLines(origin.lines, TAG_ACTION) >= 1
     /\ TagLines(origin.lines, TAG_INPUT) >= 1
     /\ \/ TagLines(origin.lines, TAG_ACTION) > 1
        \/ TagLines(origin.lines, TAG_INPUT) > 1)
    => outcome.kind = "RunawayResponse"

\* C9: a response with an Observation: line anywhere is classified as
\* Runaway, whatever Action: and Action Input: tags it also holds.
C9_ObservationIsRunaway ==
    (outcome # Unparsed /\ HasObservationLine(response))
    => outcome.kind = "RunawayResponse"

C9_Witness ==
    /\ outcome.kind = "RunawayResponse"
    /\ origin.lines = <<LAction("answer"), LInput(PReply), <<TAG_OBSERVATION, SP, "4">> >>

\* C10: round trip: a Thought line, one 'Action: a' line and one
\* 'Action Input: <json.dumps(m)>' line parse to the Directive (a, m), whatever
\* keys and string values m holds.
C10_RoundTrip ==
    (origin.rt /\ outcome # Unparsed) => outcome = Directive(origin.a, origin.m)

\* C11: the registry of a freshly constructed agent, and of the agent ever
\* after, holds the built-in terminal tool under the name 'answer', whatever
\* tool list the caller gave.
C11_TerminalToolRegistered ==
    /\ "answer" \in DOMAIN known_actions
    /\ known_actions["answer"] = "answer"

\* The identifiers of the model: what [_a-zA-Z][_a-zA-Z0-9]* can capture.
Identifiers == IdentAtoms \cup {"Action", "Observation", "Thought"}

\* C12: every Directive parse_response returns has an action that is a
\* non-empty identifier and an input that is a mapping (with string keys),
\* never a list or a scalar.
C12_DirectiveShape ==
    outcome.kind = "Directive"
    => /\ outcome.action # ""
       /\ outcome.action \in Identifiers
       /\ outcome.shape = "mapping"

\* The name is captured across the line break, from the tag of the next line.
C12_Witness ==
    /\ outcome.kind = "Directive"
    /\ origin.lines = << <<TAG_ACTION>>, LInput(PReply) >>
    /\ outcome.action = "Action"
    /\ outcome.input = Mapping1(<<"reply">>, <<"4">>)

\* Replies with one Action: tag and one Action Input: tag whose payload is
\* not a JSON object: invalid JSON text, and a JSON array.
C13_Replies == {RBadJson, RListInput}

\* C13: such a reply is classified as InvalidInput: no tool is invoked, the
\* controller stays in the loop and the next input is the observation
\* 'Error: Invalid Action Input format'.
C13_InvalidInputFedBack ==
    \A k \in 1..Len(trace) :
        trace[k].reply \in C13_Replies
        => /\ trace[k].kind = "InvalidActionInput"
           /\ IF k < Len(trace)
              THEN trace[k + 1].sent = ErrInvalidInput
              ELSE /\ step_input = ErrInvalidInput
                   /\ \/ pc = "loop"
                      \/ TransportFailed
                      \/ pc = "returned" /\ retval = ExhaustedMessage(max_steps)

\* What holds of C13 in the code: invalid JSON text between braces is fed back.
BracedInvalidInputFedBack ==
    \A k \in 1..Len(trace) :
        trace[k].reply = RBadJson
        => /\ trace[k].kind = "InvalidActionInput"
           /\ IF k < Len(trace)
              THEN trace[k + 1].sent = ErrInvalidInput
              ELSE step_input = ErrInvalidInput /\ (pc # "raised" \/ TransportFailed)

\* The step just taken was an exchange classified as Runaway.
RunawayStep ==
    /\ pc = "loop"
    /\ Len(trace') = Len(trace) + 1
    /\ Last(trace').kind = "RunawayResponse"

\* On a Runaway step the history is what it was before the exchange, the
\* pending input is kept, and only the step counter moves.
C14_Frame ==
    RunawayStep
    => /\ messages' = messages
       /\ step_input' = step_input
       /\ Last(trace').sent = step_input
       /\ i' = i + 1
       /\ pc' = "loop"
       /\ UNCHANGED <<tools, known_actions, max_steps, result, retval, exc>>

\* The exchange after a Runaway one sends the same input again.
C14_Resend ==
    \A k \in 1..(Len(trace) - 1) :
        trace[k].kind = "RunawayResponse" => trace[k + 1].sent = trace[k].sent

\* C14: on a Runaway response the last two history entries are removed, so
\* the history is what it was before that exchange; the next exchange sends
\* the same pending input again; nothing else of the agent changes but the
\* step counter, which advances by one.
C14_RunawayDiscard == [][C14_Frame]_vars /\ []C14_Resend

\* A Runaway exchange after a tool call, then the retry, then the answer: the
\* history holds the two exchanges that were kept.
C14_Witness ==
    /\ Len(trace) = 3
    /\ trace[1].kind = "Dispatched"
    /\ trace[2].kind = "RunawayResponse"
    /\ trace[3].kind = "Dispatched"
    /\ trace[3].sent = trace[2].sent
    /\ Len(messages) = 5

\* The input fed to the model after exchange k of the running task.
FedBackAfter(k) == IF k < Len(trace) THEN trace[k + 1].sent ELSE step_input

\* C15: a directive naming an action that is not in the registry invokes no
\* tool, leaves the controller in the loop and feeds back
\* 'Observation: Error: Invalid action (<name>)' with the unknown name; a
\* tool is invoked only for a directive whose action is in the registry.
C15_UnknownActionFedBack ==
    \A k \in 1..Len(trace) :
        LET p == parse_response(trace[k].reply)
            unknown == p.kind = "Directive" /\ p.action \notin DOMAIN known_actions
        IN /\ unknown
              => /\ trace[k].kind = "UnknownAction"
                 /\ trace[k].action = p.action
                 /\ FedBackAfter(k) =
                       <<TAG_OBSERVATION, SP, "Error:", SP, "Invalid action (", p.action, ")">>
                 /\ k = Len(trace)
                       => \/ pc = "loop"
                          \/ TransportFailed
                          \/ pc = "returned" /\ retval = ExhaustedMessage(max_steps)
           /\ trace[k].kind = "Dispatched"
              => /\ p.kind = "Directive"
                 /\ trace[k].action = p.action
                 /\ p.action \in DOMAIN known_actions
           /\ trace[k].kind # "Dispatched" => ~trace[k].raised /\ trace[k].value = <<>>

\* The calculator is asked for by an agent that has no calculator.
C15_Witness ==
    /\ Len(trace) >= 2
    /\ trace[1].kind = "UnknownAction"
    /\ trace[1].action = "calculator"
    /\ "calculator" \notin DOMAIN known_actions
    /\ trace[2].sent = <<TAG_OBSERVATION, SP, "Error:", SP, "Invalid action (", "calculator", ")">>

IsPrefix(s, t) == Len(s) <= Len(t) /\ SubSeq(t, 1, Len(s)) = s

\* The history starts with the system message and holds no other one.
OneSystemMessage ==
    /\ Len(messages) >= 1
    /\ messages[1] = Message("system", gen_sysprompt(<<"answer">> \o tools).text)
    /\ \A k \in 2..Len(messages) : messages[k].role # "system"

\* A step keeps the entries it retains where they were: the old history is a
\* prefix of the new one, or the new one a prefix of the old.
OrderKept == IsPrefix(messages, messages') \/ IsPrefix(messages', messages)

\* C16: in every reachable state, over any number of tasks and recovery
\* branches, the history begins with exactly one system message, holds no
\* other, and the order of the entries it retains never changes.
C16_SystemFirstOrderKept == []OneSystemMessage /\ [][OrderKept]_vars

\* A second task on the same agent, with a Runaway discard in it.
C16_Witness ==
    /\ Len(trace) = 2
    /\ trace[1].kind = "RunawayResponse"
    /\ trace[2].kind = "InvalidResponseFormat"
    /\ Len(messages) = 5
    /\ messages[1].role = "system"

\* The exchanges of the running task from k on that were kept in the history,
\* that is, not discarded as Runaway.
KeptFrom(k) == {j \in k..Len(trace) : trace[j].kind # "RunawayResponse"}

\* Where the assistant message of the kept exchange k stands in the history:
\* the kept exchanges of the task end the history, two entries each, before
\* the user message a failing transport left behind.
AssistantAt(k) ==
    Len(messages) - (IF TransportFailed THEN 1 ELSE 0) - 2 * (Cardinality(KeptFrom(k)) - 1)

\* The observation of the dispatch recorded in trace[k], as the source words it.
ObservationText(k) ==
    IF trace[k].raised
    THEN <<TAG_OBSERVATION, SP, "Error:", SP, "There was a problem using the tool ('",
           trace[k].action, "') with the given input.">>
    ELSE <<TAG_OBSERVATION, SP>> \o trace[k].value

\* The observation of exchange k stands right after its assistant message.
ObservationRecorded(k) ==
    /\ AssistantAt(k) < Len(messages)
    /\ messages[AssistantAt(k)] = Message("assistant", trace[k].reply)
    /\ messages[AssistantAt(k) + 1] = Message("user", ObservationText(k))

\* C17 as stated: when task() has returned, every directive that was
\* dispatched to a tool, in whatever step, stands in the history as an
\* observation message right after the assistant message that produced it.
C17_DispatchAlwaysRecorded ==
    pc = "returned"
    => \A k \in 1..Len(trace) : trace[k].kind = "Dispatched" => ObservationRecorded(k)

\* C17 amended: the observation of a dispatched directive becomes the pending
\* input; it stands in the history right after the assistant message that
\* produced it when a later exchange of the task was kept or the transport
\* failed on it, and otherwise the history ends with that assistant message.
C17_DispatchRecordedByNextExchange ==
    \A k \in 1..Len(trace) :
        trace[k].kind = "Dispatched"
        => /\ FedBackAfter(k) = ObservationText(k)
           /\ messages[AssistantAt(k)] = Message("assistant", trace[k].reply)
           /\ IF KeptFrom(k + 1) # {} \/ TransportFailed
              THEN ObservationRecorded(k)
              ELSE AssistantAt(k) = Len(messages)

\* A tool call, a discarded Runaway exchange, then an exchange that is kept.
C17_Witness ==
    /\ Len(trace) = 3
    /\ trace[1].kind = "Dispatched"
    /\ trace[1].action = "calculator"
    /\ trace[2].kind = "RunawayResponse"
    /\ trace[3].kind = "InvalidResponseFormat"
    /\ ObservationRecorded(1)
    /\ messages[Len(messages) - 1] = Message("user", <<TAG_OBSERVATION, SP, "4">>)

\* C18: gen_sysprompt is a pure, deterministic function of the tool list: a
\* call leaves the list it was given as it was, and successive calls with the
\* same list give the same text.
C18_ComposerPure ==
    /\ \A k \in 1..Len(composed) : composed[k].left = composed[k].given
    /\ \A j, k \in 1..Len(composed) : composed[j].text = composed[k].text

\* What holds of C18 in the code: the text is a function of the contents of
\* the list at the call, and an empty list is left as it was.
ComposerFunctionOfContents ==
    \A j, k \in 1..Len(composed) :
        /\ composed[j].given = composed[k].given => composed[j].text = composed[k].text
        /\ composed[k].given = <<>> => composed[k].left = <<>>
        /\ composed[k].given # <<>> => composed[k].left = Append(composed[k].given, "answer")

\* The system message, then (user, assistant) pairs: an odd length.
Alternating(msgs) ==
    /\ Len(msgs) % 2 = 1
    /\ msgs[1].role = "system"
    /\ \A k \in 2..Len(msgs) :
          msgs[k].role = IF k % 2 = 0 THEN "user" ELSE "assistant"

\* The step is one on which the transport fails.
TransportFailureStep == pc = "loop" /\ pc' = "raised" /\ exc' = "TransportFailure"

\* C19: as long as the transport does not fail, at the start of every loop
\* iteration and whenever task is over the history is the system message
\* followed by (user, assistant) pairs, of odd length, also over successive
\* tasks of the same agent, whose histories accumulate.
C19_Alternation ==
    /\ Alternating(messages)
    /\ [][(Alternating(messages) /\ ~TransportFailureStep)
            => (Alternating(messages') /\ IsPrefix(messages, messages'))]_vars

\* The third task of an agent has returned; every exchange so far was kept.
C19_Witness ==
    /\ pc = "returned"
    /\ Len(trace) = 1
    /\ Len(messages) = 7
    /\ Alternating(messages)

\* C20 on one step: a failing transport leaves the history longer by the
\* user message alone and the failure leaves task(); an exchange that comes
\* after a dangling user message stores its own user message right after it.
C20_Step ==
    /\ TransportFailureStep
         => /\ messages' = Append(messages, Message("user", step_input))
            /\ Last(messages').role = "user"
    /\ (Last(messages).role = "user" /\ Len(messages') > Len(messages))
         => messages'[Len(messages) + 1].role = "user"

\* C20: _chat stores the user message before it contacts the model and the
\* assistant message after the reply, so a transport failure leaves task()
\* with the history grown by exactly one user message; a later task on the
\* same agent then stores a second user message in a row.
C20_DanglingUserMessage ==
    /\ [][C20_Step]_vars
    /\ [](TransportFailed => Last(messages) = Message("user", step_input))

\* A task whose transport failed at once, then a task that was answered.
C20_Witness ==
    /\ pc = "returned"
    /\ Len(messages) = 4
    /\ messages[2].role = "user"
    /\ messages[3].role = "user"
    /\ messages[4].role = "assistant"

=============================================================================
